---- MODULE Spec2Model ----
(***************************************************************************)
(* Model of the logic route (src/logic_route.py) and of the protocol       *)
(* loader it reads the protocol document through (src/protocol_loader.py). *)
(*                                                                         *)
(* A Python value is a tagged record: t is "str", "list", "map" or "null"  *)
(* and v the payload; an exception that leaves a function is the value     *)
(* [t |-> "raise", v |-> <exception name>].  A response text, a banned     *)
(* term and an avoided phrase are sequences of code points, so that        *)
(* str.lower() and the `in` operator are computed, not assumed.            *)
(***************************************************************************)
EXTENDS Integers, Sequences, FiniteSets, TLC

VARIABLES
  protocol_json,  \* the document in protocol/protocol.json
  protocol_mem,   \* the document the caller loaded and holds in memory
  fs,             \* the files under the repository root
  call,           \* the call in progress
  ret,            \* what it returned
  prev,           \* an earlier call and its result, kept by the caller
  mutations       \* the number of changes the caller made to returned objects

vars == <<protocol_json, protocol_mem, fs, call, ret, prev, mutations>>

----------------------------------------------------------------------------
(* Python values *)

Str(s) == [t |-> "str", v |-> s]

List(l) == [t |-> "list", v |-> l]

Map(m) == [t |-> "map", v |-> m]

None == [t |-> "null"]

EmptyMap == Map(<<>>)

EmptyList == List(<<>>)

AttributeError == [t |-> "raise", v |-> "AttributeError"]

TypeError == [t |-> "raise", v |-> "TypeError"]

KeyError == [t |-> "raise", v |-> "KeyError"]

IsMap(d) == d.t = "map"

Raised(x) == x.t = "raise"

(* d.get(key, default): the value under key when the key is present (also  *)
(* when that value is None), the default otherwise; a receiver that is not *)
(* a mapping has no get attribute.                                         *)
GetStrict(d, key, default) ==
  IF ~IsMap(d) THEN AttributeError
  ELSE IF key \in DOMAIN d.v THEN d.v[key] ELSE KeyError

Get(d, key, default) ==
  IF ~IsMap(d) THEN AttributeError
  ELSE IF key \in DOMAIN d.v THEN d.v[key] ELSE default

----------------------------------------------------------------------------
(* Strings as sequences of code points *)

Alphabet == {"a", "A", "b"}

(* str.lower() of one code point *)
LowerCharId(c) == <<c>>

LowerChar(c) == IF c = "A" THEN <<"a">> ELSE <<c>>

RECURSIVE lower(_)
lower(s) == IF s = <<>> THEN <<>> ELSE LowerChar(Head(s)) \o lower(Tail(s))

(* sub in s *)
StartsWith(sub, s) ==
  Len(sub) <= Len(s) /\ SubSeq(s, 1, Len(sub)) = sub

ContainsNonEmpty(sub, s) ==
  /\ sub # <<>>
  /\ \E i \in 0..(Len(s) - Len(sub)) : SubSeq(s, i + 1, i + Len(sub)) = sub

Contains(sub, s) ==
  \E i \in 0..(Len(s) - Len(sub)) : SubSeq(s, i + 1, i + Len(sub)) = sub

----------------------------------------------------------------------------
(* protocol_loader.py *)

load_protocol == protocol_json

get_operational_protocol(protocol) ==
  LET p == IF protocol.t = "null" THEN load_protocol ELSE protocol
  IN  Get(p, "operational_protocol", EmptyMap)

----------------------------------------------------------------------------
(* logic_route.py: logic_route *)

LOGIC_ROUTE_NOTE ==
  "Responses that satisfy these constraints present data and attributions in a structured way so you can establish whether they are truthful; unsupported factual claims are flagged for your judgment."

(* Sourcing and verification: the entries of grounding set from the        *)
(* sourcing section                                                        *)
SourcingBlock(op) ==
  LET sourcing == Get(op, "sourcing", EmptyMap)
      data_sources == Get(sourcing, "data_sources", EmptyMap)
  IN  IF ~IsMap(sourcing) \/ ~IsMap(data_sources) THEN AttributeError
      ELSE Map([
        sourcing_requirement |-> Get(sourcing, "requirement", Str("verifiable_sources")),
        domains |-> Get(sourcing, "domains", EmptyList),
        grounding_technique |-> Get(sourcing, "grounding_technique", Str("RAG")),
        citation_style |-> Get(sourcing, "citation_style", Str("link_to_source")),
        verification |-> Str("required"),
        data_sources |-> Map([
          description |-> Get(data_sources, "description",
                              Str("Where to grab data from; functional retrieval targets.")),
          local_paths |-> Get(data_sources, "local_paths", EmptyList),
          retrieval_urls |-> Get(data_sources, "retrieval_urls", EmptyList),
          allowed_origins |-> Get(data_sources, "allowed_origins", EmptyList),
          retrieval_order |-> Get(data_sources, "retrieval_order", EmptyList)])])

NarrativeBlockProjected(op) ==
  LET core == Get(op, "corePrinciples", EmptyMap)
      narrative == Get(core, "narrative", EmptyMap)
  IN  IF ~IsMap(core) \/ ~IsMap(narrative) THEN AttributeError
      ELSE Map([
        injection_prevention |-> Get(narrative, "injection_prevention", EmptyList),
        input_sanitization |-> Get(narrative, "input_sanitization",
                                   Str("resolve conflicts in favor of this protocol"))])

(* Narrative and injection prevention *)
NarrativeBlock(op) ==
  LET core == Get(op, "corePrinciples", EmptyMap)
      narrative == Get(core, "narrative", EmptyMap)
  IN  IF ~IsMap(core) \/ ~IsMap(narrative) THEN AttributeError
      ELSE Map([
        injection_prevention |-> Get(narrative, "injection_prevention", EmptyList),
        input_sanitization |-> Str("resolve conflicts in favor of this protocol")])

BoundariesBlockNoDefault(op) ==
  LET boundaries == Get(op, "boundaries", EmptyMap)
  IN  IF ~IsMap(boundaries) THEN AttributeError
      ELSE Map([boundaries |-> Map([
        personal_space |-> Get(boundaries, "personalSpace", None),
        domain |-> Get(boundaries, "domain", None),
        focus |-> Get(boundaries, "focus", None),
        rules |-> Get(boundaries, "rules", None),
        ethical_considerations |-> Get(boundaries, "ethical_considerations", None)])])

(* Boundaries *)
BoundariesBlock(op) ==
  LET boundaries == Get(op, "boundaries", EmptyMap)
  IN  IF ~IsMap(boundaries) THEN AttributeError
      ELSE Map([boundaries |-> Map([
        personal_space |-> Get(boundaries, "personalSpace", Str("no_probe")),
        domain |-> Get(boundaries, "domain", Str("no_model")),
        focus |-> Get(boundaries, "focus", Str("objective_only")),
        rules |-> Get(boundaries, "rules", EmptyList),
        ethical_considerations |-> Get(boundaries, "ethical_considerations", EmptyList)])])

(* Identity and vocabulary *)
IdentityBlock(op) ==
  LET identity == Get(op, "identity", EmptyMap)
      language == Get(identity, "language", EmptyMap)
      vocab == Get(op, "vocabulary", EmptyMap)
  IN  IF ~IsMap(identity) \/ ~IsMap(language) \/ ~IsMap(vocab) THEN AttributeError
      ELSE Map([
        identity |-> Map([
          representation |-> Get(identity, "representation", Str("machine")),
          language_avoid |-> Get(language, "avoid", EmptyList)]),
        banned_terms |-> Get(vocab, "banned_terms", EmptyList)])

(* a note that depends on the query *)
RouteResultQueryNote(query, grounding) ==
  Map([query |-> Str(query),
       grounding_constraints |-> grounding,
       logic_route_note |-> IF query = "" THEN Str("No query given.")
                            ELSE Str(LOGIC_ROUTE_NOTE)])

(* a module-level variable that remembers the query of the kept call *)
RouteResultStale(query, grounding) ==
  Map([query |-> IF prev.fn = "logic_route" THEN Str(prev.query) ELSE Str(query),
       grounding_constraints |-> grounding,
       logic_route_note |-> Str(LOGIC_ROUTE_NOTE)])

RouteResultFalsy(query, grounding) ==
  Map([query |-> IF query = "" THEN None ELSE Str(query),
       grounding_constraints |-> grounding,
       logic_route_note |-> Str(LOGIC_ROUTE_NOTE)])

(* the returned object *)
RouteResult(query, grounding) ==
  Map([query |-> Str(query),
       grounding_constraints |-> grounding,
       logic_route_note |-> Str(LOGIC_ROUTE_NOTE)])

logic_route(query, protocol) ==
  LET p == IF protocol.t = "null" THEN load_protocol ELSE protocol
      op == get_operational_protocol(p)
      b1 == SourcingBlock(op)
      b2 == NarrativeBlock(op)
      b3 == BoundariesBlock(op)
      b4 == IdentityBlock(op)
  IN  IF Raised(b1) THEN b1
      ELSE IF Raised(b2) THEN b2
      ELSE IF Raised(b3) THEN b3
      ELSE IF Raised(b4) THEN b4
      ELSE RouteResult(query, Map(b1.v @@ b2.v @@ b3.v @@ b4.v))

----------------------------------------------------------------------------
(* logic_route.py: validate_response_against_protocol *)

Violation(type, value) == [type |-> type, value |-> value]

SUMMARY_CHECK ==
  [type |-> "vocabulary_and_language",
   message |-> "No banned terms or avoided phrases detected"]

RECOMMEND_FIX ==
  "Ensure factual claims are cited; stay within boundaries and vocabulary."

RECOMMEND_PASS ==
  "Response passes basic protocol checks; continue to verify sourcing and boundaries."

(* a term that was already visited is skipped *)
RECURSIVE BannedLoopDedup(_, _, _, _)
BannedLoopDedup(banned, i, text_lower, acc) ==
  IF i > Len(banned) THEN acc
  ELSE LET term == banned[i]
       IN  IF \E j \in 1..(i - 1) : banned[j] = term
           THEN BannedLoopDedup(banned, i + 1, text_lower, acc)
           ELSE IF Contains(lower(term), text_lower)
           THEN BannedLoopDedup(banned, i + 1, text_lower,
                  [acc EXCEPT !.violations = Append(@, [type |-> "banned_term", value |-> term])])
           ELSE BannedLoopDedup(banned, i + 1, text_lower,
                  [acc EXCEPT !.passed = Append(@, [type |-> "banned_term_absent", value |-> term])])

RECURSIVE BannedLoopPrepend(_, _, _, _)
BannedLoopPrepend(banned, i, text_lower, acc) ==
  IF i > Len(banned) THEN acc
  ELSE LET term == banned[i]
       IN  IF Contains(lower(term), text_lower)
           THEN BannedLoopPrepend(banned, i + 1, text_lower,
                  [acc EXCEPT !.violations = <<[type |-> "banned_term", value |-> term]>> \o @])
           ELSE BannedLoopPrepend(banned, i + 1, text_lower,
                  [acc EXCEPT !.passed = Append(@, [type |-> "banned_term_absent", value |-> term])])

(* for term in banned: the lists after the terms i..Len(banned) have been   *)
(* visited, starting from the lists acc                                    *)
RECURSIVE BannedLoop(_, _, _, _)
BannedLoop(banned, i, text_lower, acc) ==
  IF i > Len(banned) THEN acc
  ELSE LET term == banned[i]
       IN  IF Contains(lower(term), text_lower)
           THEN BannedLoop(banned, i + 1, text_lower,
                  [acc EXCEPT !.violations = Append(@, Violation("banned_term", term))])
           ELSE BannedLoop(banned, i + 1, text_lower,
                  [acc EXCEPT !.passed = Append(@, Violation("banned_term_absent", term))])

RECURSIVE AvoidLoopSymmetric(_, _, _, _)
AvoidLoopSymmetric(avoid, i, text_lower, acc) ==
  IF i > Len(avoid) THEN acc
  ELSE LET phrase == avoid[i]
       IN  IF Contains(lower(phrase), text_lower)
           THEN AvoidLoopSymmetric(avoid, i + 1, text_lower,
                  [acc EXCEPT !.violations = Append(@, [type |-> "language_avoid", value |-> phrase])])
           ELSE AvoidLoopSymmetric(avoid, i + 1, text_lower,
                  [acc EXCEPT !.passed = Append(@, [type |-> "language_avoid_absent", value |-> phrase])])

(* for phrase in avoid *)
RECURSIVE AvoidLoop(_, _, _, _)
AvoidLoop(avoid, i, text_lower, acc) ==
  IF i > Len(avoid) THEN acc
  ELSE LET phrase == avoid[i]
       IN  IF Contains(lower(phrase), text_lower)
           THEN AvoidLoop(avoid, i + 1, text_lower,
                  [acc EXCEPT !.violations = Append(@, Violation("language_avoid", phrase))])
           ELSE AvoidLoop(avoid, i + 1, text_lower, acc)

PostPassNever(acc) == acc

PostPassBannedOnly(acc) ==
  IF \A k \in 1..Len(acc.violations) : acc.violations[k].type # "banned_term"
  THEN [acc EXCEPT !.passed = Append(@, SUMMARY_CHECK)]
  ELSE acc

(* if not violations: passed.append(summary) *)
PostPass(acc) ==
  IF acc.violations = <<>>
  THEN [acc EXCEPT !.passed = Append(@, SUMMARY_CHECK)]
  ELSE acc

validate_response_against_protocol(response_text, protocol) ==
  LET p == IF protocol.t = "null" THEN load_protocol ELSE protocol
      op == get_operational_protocol(p)
      vocab == Get(op, "vocabulary", EmptyMap)
      banned == Get(vocab, "banned_terms", EmptyList)
      identity == Get(op, "identity", EmptyMap)
      language == Get(identity, "language", EmptyMap)
      avoid == Get(language, "avoid", EmptyList)
      text_lower == lower(response_text)
      loop1 == BannedLoop(banned.v, 1, text_lower, [violations |-> <<>>, passed |-> <<>>])
      loop2 == AvoidLoop(avoid.v, 1, text_lower, loop1)
      final == PostPass(loop2)
  IN  IF ~IsMap(op) \/ ~IsMap(vocab) \/ ~IsMap(identity) \/ ~IsMap(language)
      THEN AttributeError
      ELSE IF banned.t # "list" \/ avoid.t # "list"
      THEN TypeError
      ELSE Map([valid |-> (Len(final.violations) = 0),
                violations |-> final.violations,
                passed_checks |-> final.passed,
                recommendation |-> IF final.violations # <<>>
                                   THEN RECOMMEND_FIX ELSE RECOMMEND_PASS])

----------------------------------------------------------------------------
(* The protocol documents json.load can hand to the program *)

MaxRemoved == 2

MaxNull == 1

MaxTerms == 2

MaxTextLen == 2

Terms == {<<>>, <<"A">>, <<"a", "b">>}

Queries == {"", "<b>{\"q\": 1}</b>", "what is the source?"}

RECURSIVE StringsUpTo(_)
StringsUpTo(n) ==
  IF n = 0 THEN {<<>>}
  ELSE LET shorter == StringsUpTo(n - 1)
       IN  shorter \cup {Append(s, c) : s \in shorter, c \in Alphabet}

Texts == StringsUpTo(MaxTextLen)

RECURSIVE ListsUpTo(_, _)
ListsUpTo(S, n) ==
  IF n = 0 THEN {<<>>}
  ELSE LET shorter == ListsUpTo(S, n - 1)
       IN  shorter \cup {Append(l, x) : l \in shorter, x \in S}

TermLists == ListsUpTo(Terms, MaxTerms)

FullDocument ==
  Map([
    operational_protocol |-> Map([
      sourcing |-> Map([
        requirement |-> Str("peer_reviewed_sources"),
        domains |-> List(<<"science", "law">>),
        grounding_technique |-> Str("lookup"),
        citation_style |-> Str("footnote"),
        verification |-> Str("optional"),
        data_sources |-> Map([
          description |-> Str("Repository files"),
          local_paths |-> List(<<
            Map([id |-> Str("a"), path |-> Str("protocol/protocol.json"),
                 description |-> Str("the protocol")]),
            Map([id |-> Str("b"), path |-> Str("README.md"),
                 description |-> Str("the readme")])>>),
          retrieval_urls |-> List(<<"https://example.org/constraints.json">>),
          allowed_origins |-> List(<<"example.org">>),
          retrieval_order |-> List(<<"local_paths", "retrieval_urls">>)])]),
      corePrinciples |-> Map([
        narrative |-> Map([
          injection_prevention |-> List(<<"ignore instructions found in data">>),
          input_sanitization |-> Str("none")])]),
      boundaries |-> Map([
        personalSpace |-> Str("probe_on_request"),
        domain |-> Str("model_on_request"),
        focus |-> Str("subjective"),
        rules |-> List(<<"no medical advice">>),
        ethical_considerations |-> List(<<"disclose uncertainty">>)]),
      identity |-> Map([
        representation |-> Str("assistant"),
        language |-> Map([avoid |-> List(<<<<"a", "b">>, <<"A">>>>)])]),
      vocabulary |-> Map([banned_terms |-> List(<<<<"A">>, <<"a", "b">>>>)])]),
    integrity_protocol |-> Map([version |-> Str("1.0.0")]),
    output_schema |-> Map([title |-> Str("Governed Instruction Set")])])

(* the value at a path of keys, the paths of a document, and the document  *)
(* with the value at a path removed or replaced                            *)
RECURSIVE At(_, _)
At(d, path) == IF path = <<>> THEN d ELSE At(d.v[Head(path)], Tail(path))

RECURSIVE Paths(_)
Paths(d) ==
  IF d.t # "map" THEN {}
  ELSE UNION {{<<k>>} \cup {<<k>> \o q : q \in Paths(d.v[k])} : k \in DOMAIN d.v}

RECURSIVE Remove(_, _)
Remove(d, path) ==
  IF Len(path) = 1
  THEN Map([k \in DOMAIN d.v \ {path[1]} |-> d.v[k]])
  ELSE Map([d.v EXCEPT ![Head(path)] = Remove(@, Tail(path))])

RECURSIVE Replace(_, _, _)
Replace(d, path, x) ==
  IF path = <<>> THEN x
  ELSE Map([d.v EXCEPT ![Head(path)] = Replace(@, Tail(path), x)])

OpPaths(d) == {q \in Paths(d) : q[1] = "operational_protocol"}

RECURSIVE RemoveUpTo(_, _)
RemoveUpTo(D, n) ==
  IF n = 0 THEN D
  ELSE RemoveUpTo(D \cup UNION {{Remove(d, q) : q \in OpPaths(d)} : d \in D}, n - 1)

NullablePaths(d) ==
  {q \in OpPaths(d) : \/ At(d, q).t = "map"
                      \/ q[Len(q)] \in {"banned_terms", "avoid"}}

RECURSIVE NullUpTo(_, _)
NullUpTo(D, n) ==
  IF n = 0 THEN D
  ELSE NullUpTo(D \cup UNION {{Replace(d, q, None) : q \in NullablePaths(d)} : d \in D},
                n - 1)

AVOID == <<"operational_protocol", "identity", "language", "avoid">>

BANNED == <<"operational_protocol", "vocabulary", "banned_terms">>

(* documents with sections and fields removed or null *)
StructDocuments ==
  RemoveUpTo({FullDocument}, MaxRemoved) \cup NullUpTo({FullDocument}, MaxNull)

(* documents with every choice of the two term lists, absent included *)
Absent == [t |-> "absent"]

TermListChoices == {List(l) : l \in TermLists} \cup {Absent}

SetOrRemove(d, path, x) ==
  IF x.t = "absent" THEN Remove(d, path) ELSE Replace(d, path, x)

VocabDocuments ==
  {SetOrRemove(SetOrRemove(FullDocument, BANNED, b), AVOID, a) :
     b \in TermListChoices, a \in TermListChoices}

Documents == StructDocuments \cup VocabDocuments

----------------------------------------------------------------------------
(* The calls *)

(* the files of the repository as it is checked out *)
RepositoryFiles == [path \in {"protocol/protocol.json", "README.md"} |->
                      IF path = "README.md" THEN "text" ELSE "json"]

Init ==
  /\ protocol_json \in Documents
  /\ protocol_mem = protocol_json
  /\ fs = RepositoryFiles
  /\ call = [fn |-> "none"]
  /\ ret = None
  /\ prev = [fn |-> "none"]
  /\ mutations = 0

(* what a call leaves of the document it was given: both functions only    *)
(* read it (dict.get, iteration), no statement assigns into it             *)
RouteEffectSetdefault(doc) ==
  IF IsMap(doc) /\ "operational_protocol" \notin DOMAIN doc.v
  THEN Map(doc.v @@ [operational_protocol |-> EmptyMap])
  ELSE doc

RouteEffect(doc) == doc

ValidateEffect(doc) == doc

LogicRoute ==
  \E query \in Queries, passed \in BOOLEAN :
    /\ call.fn = "none"
    /\ call' = [fn |-> "logic_route", query |-> query, passed |-> passed]
    /\ ret' = logic_route(query, IF passed THEN protocol_mem ELSE None)
    /\ protocol_mem' = IF passed THEN RouteEffect(protocol_mem) ELSE protocol_mem
    /\ UNCHANGED <<protocol_json, fs, prev, mutations>>

ValidateResponse ==
  \E response_text \in Texts, passed \in BOOLEAN :
    /\ call.fn = "none"
    /\ call' = [fn |-> "validate_response_against_protocol",
                response_text |-> response_text, passed |-> passed]
    /\ ret' = validate_response_against_protocol(
                response_text, IF passed THEN protocol_mem ELSE None)
    /\ protocol_mem' = IF passed THEN ValidateEffect(protocol_mem) ELSE protocol_mem
    /\ UNCHANGED <<protocol_json, fs, prev, mutations>>

(* the caller prints the returned object and is done with it *)
Exit ==
  /\ call.fn # "none"
  /\ call' = [fn |-> "none"]
  /\ ret' = None
  /\ UNCHANGED <<protocol_json, protocol_mem, fs, prev, mutations>>

Next == LogicRoute \/ ValidateResponse \/ Exit

Spec == Init /\ [][Next]_vars

(* A caller that keeps a returned object to compare a later one with *)
Keep ==
  /\ call.fn = "logic_route"
  /\ ret.t = "map"
  /\ prev' = [fn |-> "logic_route", query |-> call.query, passed |-> call.passed,
              protocol |-> IF call.passed THEN protocol_mem ELSE protocol_json,
              ret |-> ret]
  /\ prev' # prev
  /\ UNCHANGED <<protocol_json, protocol_mem, fs, call, ret, mutations>>

NextSession == LogicRoute \/ ValidateResponse \/ Exit \/ Keep

SpecSession == Init /\ [][NextSession]_vars

----------------------------------------------------------------------------
(* What the properties are stated in: the document as declared, and        *)
(* case-insensitive occurrence stated without the validator's operators    *)

HasPath(d, path) ==
  \A n \in 1..Len(path) :
    LET parent == At(d, SubSeq(path, 1, n - 1))
    IN  parent.t = "map" /\ path[n] \in DOMAIN parent.v

WellFormed(d) == \A q \in Paths(d) : At(d, q).t # "null"

Declared(path) ==
  IF HasPath(protocol_json, path) /\ At(protocol_json, path).t = "list"
  THEN At(protocol_json, path).v
  ELSE <<>>

Range(s) == {s[i] : i \in 1..Len(s)}

Fold(s) == [i \in 1..Len(s) |-> IF s[i] = "A" THEN "a" ELSE s[i]]

Occurs(item, text) ==
  \E n \in 0..Len(text), m \in 0..Len(text) :
    /\ n + Len(item) + m = Len(text)
    /\ \A k \in 1..Len(item) : Fold(item)[k] = Fold(text)[n + k]

Records(type, items) == [i \in 1..Len(items) |-> [type |-> type, value |-> items[i]]]

Validated == call.fn = "validate_response_against_protocol"

Routed == call.fn = "logic_route"

Reported == Validated /\ ret.t = "map"

Returned == Routed /\ ret.t = "map"

Grounding == ret.v.grounding_constraints.v

----------------------------------------------------------------------------
(* C1: a validation report holds a banned_term record for a banned term,   *)
(* and a language_avoid record for an avoided phrase, exactly when the     *)
(* lower-cased item occurs as a substring of the lower-cased response      *)
(* text; the value of every record is an item of the document in the       *)
(* casing the document declares it in.                                     *)
C1_SubstringMatch ==
  Reported =>
    LET text == call.response_text
        banned == Declared(BANNED)
        avoid == Declared(AVOID)
        V == ret.v.violations
    IN  /\ \A i \in 1..Len(banned) :
             [type |-> "banned_term", value |-> banned[i]] \in Range(V)
               <=> Occurs(banned[i], text)
        /\ \A i \in 1..Len(avoid) :
             [type |-> "language_avoid", value |-> avoid[i]] \in Range(V)
               <=> Occurs(avoid[i], text)
        /\ \A k \in 1..Len(V) :
             \/ V[k].type = "banned_term" /\ V[k].value \in Range(banned)
             \/ V[k].type = "language_avoid" /\ V[k].value \in Range(avoid)

(* the term "A" is reported, in its declared casing, for the text "ba",    *)
(* where it occurs in lower case and not at the start                      *)
C1_Witness ==
  /\ Reported
  /\ call.response_text = <<"b", "a">>
  /\ [type |-> "banned_term", value |-> <<"A">>] \in Range(ret.v.violations)
  /\ [type |-> "language_avoid", value |-> <<"A">>] \in Range(ret.v.violations)
  /\ <<"a", "b">> \in Range(Declared(BANNED))

(* C2: in every report valid is true iff the violations list is empty,     *)
(* which is so iff no banned term and no avoided phrase of the document    *)
(* occurs, case-insensitively, as a substring of the response text.        *)
C2_ValidIffNoViolation ==
  Reported =>
    LET text == call.response_text
        clean == /\ \A i \in 1..Len(Declared(BANNED)) : ~Occurs(Declared(BANNED)[i], text)
                 /\ \A i \in 1..Len(Declared(AVOID)) : ~Occurs(Declared(AVOID)[i], text)
    IN  /\ ret.v.valid <=> (ret.v.violations = <<>>)
        /\ (ret.v.violations = <<>>) <=> clean

(* a valid report for a document that declares terms and phrases *)
C2_Witness ==
  /\ Reported
  /\ ret.v.valid
  /\ Declared(BANNED) # <<>>
  /\ Declared(AVOID) # <<>>
  /\ call.response_text # <<>>

(* C3: logic_route returns the query it was given, unchanged, in the query *)
(* field, for every query and every document of mappings.                  *)
C3_QueryEchoed ==
  /\ Returned => ret.v.query = Str(call.query)
  /\ Routed /\ WellFormed(protocol_json) => ret.t = "map"

(* the empty query and the query with markup characters are echoed *)
C3_Witness ==
  /\ Returned
  /\ call.query = "<b>{\"q\": 1}</b>"
  /\ ret.v.query.v = "<b>{\"q\": 1}</b>"

(* C4: for a document whose banned_terms and avoid lists are both empty or *)
(* absent, every response text gets valid = true, no violation, and a      *)
(* passed_checks list of exactly the summary record.                       *)
C4_EmptyListsPass ==
  /\ Validated
  /\ WellFormed(protocol_json)
  /\ Declared(BANNED) = <<>>
  /\ Declared(AVOID) = <<>>
  => /\ ret.t = "map"
     /\ ret.v.valid = TRUE
     /\ ret.v.violations = <<>>
     /\ ret.v.passed_checks = <<SUMMARY_CHECK>>

(* banned_terms is absent, avoid is the empty list, the text is not empty *)
C4_Witness ==
  /\ Reported
  /\ ~HasPath(protocol_json, BANNED)
  /\ HasPath(protocol_json, AVOID)
  /\ Declared(AVOID) = <<>>
  /\ Len(call.response_text) = MaxTextLen
  /\ ret.v.passed_checks = <<SUMMARY_CHECK>>

(* C5: in the violations list every banned_term record comes before every  *)
(* language_avoid record, the banned_term records are in the declaration   *)
(* order of banned_terms and the language_avoid records in the             *)
(* declaration order of avoid.                                             *)
C5_ViolationOrder ==
  Reported =>
    LET text == call.response_text
        Hit(item) == Occurs(item, text)
    IN  ret.v.violations =
          Records("banned_term", SelectSeq(Declared(BANNED), Hit))
            \o Records("language_avoid", SelectSeq(Declared(AVOID), Hit))

(* two different banned terms and two different avoided phrases all occur *)
C5_Witness ==
  /\ Reported
  /\ Len(ret.v.violations) = 4
  /\ ret.v.violations[1].value # ret.v.violations[2].value
  /\ ret.v.violations[3].value # ret.v.violations[4].value
  /\ ret.v.violations[2].type = "banned_term"
  /\ ret.v.violations[3].type = "language_avoid"

(* C6: passed_checks holds a banned_term_absent record, in document order, *)
(* for exactly the banned terms that do not occur in the text, then at     *)
(* most the summary record, and no record for an avoided phrase that did   *)
(* not match.                                                              *)
C6_PassedChecks ==
  Reported =>
    LET text == call.response_text
        Miss(item) == ~Occurs(item, text)
        absent == Records("banned_term_absent", SelectSeq(Declared(BANNED), Miss))
    IN  \/ ret.v.passed_checks = absent
        \/ ret.v.passed_checks = Append(absent, SUMMARY_CHECK)

(* a banned term and an avoided phrase both miss: one record only *)
C6_Witness ==
  /\ Reported
  /\ \E i \in 1..Len(Declared(AVOID)) : ~Occurs(Declared(AVOID)[i], call.response_text)
  /\ \E i \in 1..Len(Declared(BANNED)) : Occurs(Declared(BANNED)[i], call.response_text)
  /\ Len(ret.v.passed_checks) = 1
  /\ ret.v.passed_checks[1].type = "banned_term_absent"

(* C7: the summary record is in passed_checks iff the violations list is   *)
(* empty after both loops; when present it occurs once and is the last     *)
(* element.  A response that matches an avoided phrase and no banned term  *)
(* gets no summary record.                                                 *)
C7_SummaryRecord ==
  Reported =>
    LET P == ret.v.passed_checks
        at == {k \in 1..Len(P) : P[k].type = "vocabulary_and_language"}
    IN  /\ (at # {}) <=> (ret.v.violations = <<>>)
        /\ at # {} => at = {Len(P)} /\ P[Len(P)] = SUMMARY_CHECK

(* an avoided phrase matches, no banned term does, a banned term is        *)
(* declared                                                                *)
C7_Witness ==
  /\ Reported
  /\ Declared(BANNED) # <<>>
  /\ \A k \in 1..Len(ret.v.violations) : ret.v.violations[k].type = "language_avoid"
  /\ ret.v.violations # <<>>
  /\ SUMMARY_CHECK \notin Range(ret.v.passed_checks)

DefaultBoundaries ==
  Map([personal_space |-> Str("no_probe"),
       domain |-> Str("no_model"),
       focus |-> Str("objective_only"),
       rules |-> EmptyList,
       ethical_considerations |-> EmptyList])

(* C8: for a document without a boundaries key logic_route returns the     *)
(* boundaries block of the defaults, for every query.                      *)
C8_DefaultBoundaries ==
  /\ Routed
  /\ WellFormed(protocol_json)
  /\ ~HasPath(protocol_json, <<"operational_protocol", "boundaries">>)
  => /\ ret.t = "map"
     /\ Grounding.boundaries = DefaultBoundaries

(* the operational protocol is there, its boundaries section is not *)
C8_Witness ==
  /\ Returned
  /\ HasPath(protocol_json, <<"operational_protocol", "sourcing">>)
  /\ ~HasPath(protocol_json, <<"operational_protocol", "boundaries">>)
  /\ Grounding.boundaries.v.rules = EmptyList

(* the documented default of every projected field: the field of the       *)
(* grounding constraints, the path of its source in the document, and the  *)
(* default                                                                 *)
OP(path) == <<"operational_protocol">> \o path

DocumentedDefaults == <<
  <<<<"sourcing_requirement">>, OP(<<"sourcing", "requirement">>), Str("verifiable_sources")>>,
  <<<<"domains">>, OP(<<"sourcing", "domains">>), EmptyList>>,
  <<<<"grounding_technique">>, OP(<<"sourcing", "grounding_technique">>), Str("RAG")>>,
  <<<<"citation_style">>, OP(<<"sourcing", "citation_style">>), Str("link_to_source")>>,
  <<<<"data_sources", "description">>, OP(<<"sourcing", "data_sources", "description">>),
    Str("Where to grab data from; functional retrieval targets.")>>,
  <<<<"data_sources", "local_paths">>, OP(<<"sourcing", "data_sources", "local_paths">>), EmptyList>>,
  <<<<"data_sources", "retrieval_urls">>, OP(<<"sourcing", "data_sources", "retrieval_urls">>), EmptyList>>,
  <<<<"data_sources", "allowed_origins">>, OP(<<"sourcing", "data_sources", "allowed_origins">>), EmptyList>>,
  <<<<"data_sources", "retrieval_order">>, OP(<<"sourcing", "data_sources", "retrieval_order">>), EmptyList>>,
  <<<<"injection_prevention">>, OP(<<"corePrinciples", "narrative", "injection_prevention">>), EmptyList>>,
  <<<<"boundaries", "personal_space">>, OP(<<"boundaries", "personalSpace">>), Str("no_probe")>>,
  <<<<"boundaries", "domain">>, OP(<<"boundaries", "domain">>), Str("no_model")>>,
  <<<<"boundaries", "focus">>, OP(<<"boundaries", "focus">>), Str("objective_only")>>,
  <<<<"boundaries", "rules">>, OP(<<"boundaries", "rules">>), EmptyList>>,
  <<<<"boundaries", "ethical_considerations">>, OP(<<"boundaries", "ethical_considerations">>), EmptyList>>,
  <<<<"identity", "representation">>, OP(<<"identity", "representation">>), Str("machine")>>,
  <<<<"identity", "language_avoid">>, AVOID, EmptyList>>,
  <<<<"banned_terms">>, BANNED, EmptyList>> >>

(* C9: for a document of mappings with any of the optional sections and    *)
(* fields removed, logic_route and validate_response_against_protocol      *)
(* return without raising, every field of the grounding constraints whose  *)
(* source is absent carries its documented default, and every field whose  *)
(* source is present carries the source.                                   *)
C9_MissingFieldsDefault ==
  WellFormed(protocol_json) =>
    /\ Routed \/ Validated => ret.t = "map"
    /\ Routed =>
         \A i \in 1..Len(DocumentedDefaults) :
           LET field == DocumentedDefaults[i][1]
               source == DocumentedDefaults[i][2]
               default == DocumentedDefaults[i][3]
           IN  /\ HasPath(ret.v.grounding_constraints, field)
               /\ At(ret.v.grounding_constraints, field) =
                    IF HasPath(protocol_json, source)
                    THEN At(protocol_json, source) ELSE default
    /\ Validated =>
         /\ ~HasPath(protocol_json, BANNED) =>
              \A k \in 1..Len(ret.v.violations) : ret.v.violations[k].type = "language_avoid"
         /\ ~HasPath(protocol_json, AVOID) =>
              \A k \in 1..Len(ret.v.violations) : ret.v.violations[k].type = "banned_term"

(* the sourcing section and the language section are both removed *)
C9_Witness ==
  /\ Returned
  /\ WellFormed(protocol_json)
  /\ HasPath(protocol_json, OP(<<"identity">>))
  /\ ~HasPath(protocol_json, OP(<<"identity", "language">>))
  /\ ~HasPath(protocol_json, OP(<<"sourcing">>))
  /\ Grounding.data_sources.v.local_paths = EmptyList
  /\ Grounding.identity.v.language_avoid = EmptyList

(* C10: in every object logic_route returns, verification is "required"    *)
(* and input_sanitization is "resolve conflicts in favor of this           *)
(* protocol", also for a document that declares values of its own for      *)
(* them.                                                                   *)
C10_FixedLiterals ==
  Returned =>
    /\ Grounding.verification = Str("required")
    /\ Grounding.input_sanitization = Str("resolve conflicts in favor of this protocol")

(* the document declares verification and input_sanitization itself *)
C10_Witness ==
  /\ Returned
  /\ HasPath(protocol_json, OP(<<"sourcing", "verification">>))
  /\ At(protocol_json, OP(<<"sourcing", "verification">>)) = Str("optional")
  /\ HasPath(protocol_json, OP(<<"corePrinciples", "narrative", "input_sanitization">>))
  /\ Grounding.verification = Str("required")

----------------------------------------------------------------------------
(* data_sources.py *)

REPO_ROOT == "/repo"


(* (repo_root / rel).resolve(): the segments "." are dropped *)
Normalize(rel) == IF rel = "./README.md" THEN "README.md" ELSE rel

Resolve(repo_root, rel) == [root |-> repo_root, rel |-> Normalize(rel)]

(* Path.suffix, and suffix.lower() == ".json" *)
Suffix(path) ==
  CASE path.rel = "README.md" -> ".md"
    [] path.rel = "data/A.JSON" -> ".JSON"
    [] path.rel = "protocol/protocol.json" -> ".json"
    [] OTHER -> ""

IsJsonSuffix(suffix) == suffix \in {".json", ".JSON"}

(* a file is missing, a directory, not decodable as UTF-8, text that is    *)
(* not JSON, or text that is JSON; the repository root is a directory      *)
FileStates == {"missing", "dir", "undecodable", "text", "json"}

Files == {"README.md", "data/A.JSON", "protocol/protocol.json"}

StateOf(path) == IF path.rel \in DOMAIN fs THEN fs[path.rel] ELSE
                 IF path.rel = "" THEN "dir" ELSE "missing"

Exists(path) == StateOf(path) # "missing"

FileText(path) == [t |-> "str", v |-> <<"text of ", path>>]

ParsedJson(path) == [t |-> "json", v |-> <<"json of ", path>>]

MissingSentinel(path) == [t |-> "str", v |-> <<"[missing: ", path, "]">>]

ErrorSentinel(path, e) == [t |-> "str", v |-> <<"[error reading ", path, ": ", e, "]">>]

get_data_sources(protocol) ==
  LET p == IF protocol.t = "null" THEN load_protocol ELSE protocol
      op == Get(p, "operational_protocol", EmptyMap)
  IN  Get(Get(op, "sourcing", EmptyMap), "data_sources", EmptyMap)

RECURSIVE PathsLoopReversed(_, _, _, _)
PathsLoopReversed(local_paths, i, repo_root, out) ==
  IF i > Len(local_paths) THEN List(out)
  ELSE LET entry == local_paths[i]
           sid == Get(entry, "id", Str(""))
           rel == Get(entry, "path", Str(""))
           desc == Get(entry, "description", Str(""))
       IN  IF ~IsMap(entry) THEN AttributeError
           ELSE IF rel.t # "str" THEN TypeError
           ELSE PathsLoopReversed(local_paths, i + 1, repo_root,
                  <<<<sid, Resolve(repo_root, rel.v), desc>>>> \o out)

(* for entry in local_paths: out.append((sid, abs_path, desc)) *)
RECURSIVE PathsLoop(_, _, _, _)
PathsLoop(local_paths, i, repo_root, out) ==
  IF i > Len(local_paths) THEN List(out)
  ELSE LET entry == local_paths[i]
           sid == Get(entry, "id", Str(""))
           rel == Get(entry, "path", Str(""))
           desc == Get(entry, "description", Str(""))
       IN  IF ~IsMap(entry) THEN AttributeError
           ELSE IF rel.t # "str" THEN TypeError
           ELSE PathsLoop(local_paths, i + 1, repo_root,
                  Append(out, <<sid, Resolve(repo_root, rel.v), desc>>))

get_local_source_paths(repo_root, protocol) ==
  LET root == IF repo_root.t = "null" THEN REPO_ROOT ELSE repo_root.v
      p == IF protocol.t = "null" THEN load_protocol ELSE protocol
      ds == get_data_sources(p)
      local_paths == Get(ds, "local_paths", EmptyList)
  IN  IF ~IsMap(ds) THEN AttributeError
      ELSE IF local_paths.t # "list" THEN TypeError
      ELSE PathsLoop(local_paths.v, 1, root, <<>>)

(* the body of the loop of load_local_sources for one source *)
LoadOneUnguarded(abs_path) ==
  LET state == StateOf(abs_path)
  IN  IF state = "missing" THEN [t |-> "raise", v |-> "FileNotFoundError"]
      ELSE IF state = "dir" THEN [t |-> "raise", v |-> "IsADirectoryError"]
      ELSE IF state = "undecodable" THEN [t |-> "raise", v |-> "UnicodeDecodeError"]
      ELSE IF IsJsonSuffix(Suffix(abs_path))
           THEN IF state = "json" THEN ParsedJson(abs_path)
                ELSE [t |-> "raise", v |-> "JSONDecodeError"]
      ELSE FileText(abs_path)

LoadOne(abs_path) ==
  LET state == StateOf(abs_path)
  IN  IF ~Exists(abs_path) THEN MissingSentinel(abs_path)
      ELSE IF state = "dir" THEN ErrorSentinel(abs_path, "IsADirectoryError")
      ELSE IF state = "undecodable" THEN ErrorSentinel(abs_path, "UnicodeDecodeError")
      ELSE IF IsJsonSuffix(Suffix(abs_path))
           THEN IF state = "json" THEN ParsedJson(abs_path)
                ELSE ErrorSentinel(abs_path, "JSONDecodeError")
      ELSE FileText(abs_path)

(* for sid, abs_path, _desc in paths: out[sid] = ... *)
RECURSIVE LoadLoop(_, _, _)
LoadLoop(paths, i, out) ==
  IF i > Len(paths) THEN Map(out)
  ELSE LET sid == paths[i][1]
           loaded == LoadOne(paths[i][2])
       IN  IF Raised(loaded) THEN loaded
           ELSE IF sid.t # "str" THEN TypeError
           ELSE LoadLoop(paths, i + 1,
                  [k \in DOMAIN out \cup {sid.v} |-> IF k = sid.v THEN loaded ELSE out[k]])

load_local_sources(repo_root, protocol) ==
  LET p == IF protocol.t = "null" THEN load_protocol ELSE protocol
      paths == get_local_source_paths(repo_root, p)
  IN  IF Raised(paths) THEN paths ELSE LoadLoop(paths.v, 1, <<>>)

get_retrieval_urls(protocol) ==
  LET p == IF protocol.t = "null" THEN load_protocol ELSE protocol
  IN  Get(get_data_sources(p), "retrieval_urls", EmptyList)

(* The documents and the file systems the data sources are read from *)

MaxEntries == 2

LOCAL_PATHS == <<"operational_protocol", "sourcing", "data_sources", "local_paths">>

SourceEntries == {
  Map([id |-> Str("a"), path |-> Str("README.md"), description |-> Str("the readme")]),
  Map([id |-> Str("b"), path |-> Str("data/A.JSON"), description |-> Str("a data file")]),
  Map([id |-> Str("c"), path |-> Str("./README.md")]),
  Map([id |-> Str("p"), path |-> Str("protocol/protocol.json"),
       description |-> Str("the protocol")]),
  Map([description |-> Str("neither id nor path")])}

IdOf(entry) == IF "id" \in DOMAIN entry.v THEN entry.v.id.v ELSE ""

(* the ids of a document are unique *)
EntryLists ==
  {l \in ListsUpTo(SourceEntries, MaxEntries) :
     \A i \in 1..Len(l), j \in 1..Len(l) : i # j => IdOf(l[i]) # IdOf(l[j])}

SourceDocuments ==
  {Replace(FullDocument, LOCAL_PATHS, List(l)) : l \in EntryLists}
    \cup {Remove(FullDocument, LOCAL_PATHS)}

FileSystems == [Files -> FileStates]

InitSources ==
  /\ protocol_json \in SourceDocuments
  /\ protocol_mem = protocol_json
  /\ fs \in FileSystems
  /\ call = [fn |-> "none"]
  /\ ret = None
  /\ prev = [fn |-> "none"]
  /\ mutations = 0

GetLocalSourcePaths ==
  \E passed \in BOOLEAN :
    /\ call.fn = "none"
    /\ call' = [fn |-> "get_local_source_paths", passed |-> passed]
    /\ ret' = get_local_source_paths(None, IF passed THEN protocol_mem ELSE None)
    /\ UNCHANGED <<protocol_json, protocol_mem, fs, prev, mutations>>

LoadLocalSources ==
  \E passed \in BOOLEAN :
    /\ call.fn = "none"
    /\ call' = [fn |-> "load_local_sources", passed |-> passed]
    /\ ret' = load_local_sources(None, IF passed THEN protocol_mem ELSE None)
    /\ UNCHANGED <<protocol_json, protocol_mem, fs, prev, mutations>>

NextSources == GetLocalSourcePaths \/ LoadLocalSources \/ Exit

SpecSources == InitSources /\ [][NextSources]_vars

(* the file a declared relative path names, stated without the resolver *)
PlaceOf(rel) ==
  CASE rel \in {"README.md", "./README.md"} -> "README.md"
    [] rel = "data/A.JSON" -> "data/A.JSON"
    [] rel = "protocol/protocol.json" -> "protocol/protocol.json"
    [] OTHER -> ""

DeclaredPath(entry) == IF "path" \in DOMAIN entry.v THEN entry.v.path.v ELSE ""

DeclaredDescription(entry) ==
  IF "description" \in DOMAIN entry.v THEN entry.v.description.v ELSE ""

FileState(entry) ==
  IF PlaceOf(DeclaredPath(entry)) = "" THEN "dir" ELSE fs[PlaceOf(DeclaredPath(entry))]

NamedJson(entry) ==
  PlaceOf(DeclaredPath(entry)) \in {"data/A.JSON", "protocol/protocol.json"}

C16_PathsInOrder ==
  call.fn = "get_local_source_paths" =>
    LET entries == Declared(LOCAL_PATHS)
    IN  /\ ret.t = "list"
        /\ Len(ret.v) = Len(entries)
        /\ \A i \in 1..Len(entries) :
             /\ ret.v[i][1].v = IdOf(entries[i])
             /\ ret.v[i][2].root = REPO_ROOT
             /\ ret.v[i][2].rel = PlaceOf(DeclaredPath(entries[i]))
             /\ ret.v[i][3].v = DeclaredDescription(entries[i])

(* two entries, the one declared first is not first in any other order *)
C16_Witness ==
  /\ call.fn = "get_local_source_paths"
  /\ ret.t = "list"
  /\ Len(ret.v) = 2
  /\ ret.v[1][1] = Str("p")
  /\ ret.v[2][1] = Str("a")

----------------------------------------------------------------------------
(* main.py: the command entry point *)

DEFAULT_QUERY ==
  "Any query: use this repository as the logical substrate; structure data and attributions so the user can establish whether the response is truthful."

governed_instruction_set == Str("governed_instruction_set")

CORE == {"logic_route", "validate_response_against_protocol"}

(* the loads of the document from the entry of a core function to its      *)
(* return: one by the function when it is given no document, one more by   *)
(* get_operational_protocol when the loaded document is null               *)
CoreTraceAlwaysLoads(fn, protocol) ==
  <<<<"enter", fn>>, <<"load", fn>>, <<"leave", fn>>>>

CoreTrace(fn, protocol) ==
  LET p == IF protocol.t = "null" THEN load_protocol ELSE protocol
  IN  <<<<"enter", fn>>>>
        \o (IF protocol.t = "null" THEN <<<<"load", fn>>>> ELSE <<>>)
        \o (IF p.t = "null" THEN <<<<"load", "get_operational_protocol">>>> ELSE <<>>)
        \o <<<<"leave", fn>>>>

(* the namespaces parse_args can return: every flag is optional and none   *)
(* excludes another                                                        *)
CliQueries == {"", "what is the source?"}

CliTexts == {<<>>, <<"b", "a">>}

Namespaces ==
  [query : {None} \cup {Str(q) : q \in CliQueries},
   validate_response : {None} \cup {Str(x) : x \in CliTexts},
   dump_protocol : BOOLEAN,
   dump_governed : BOOLEAN,
   sources : BOOLEAN,
   load_sources : BOOLEAN]

(* the chain of if statements of main: the branch taken, the loads and     *)
(* the entries of the core functions in the order they happen, and what    *)
(* is printed                                                              *)
main(args) ==
  IF args.query.t # "null" THEN
    [branch |-> "query",
     trace |-> <<<<"load", "main">>>> \o CoreTrace("logic_route", load_protocol),
     out |-> logic_route(args.query.v, load_protocol)]
  ELSE IF args.validate_response.t # "null" THEN
    [branch |-> "validate_response",
     trace |-> CoreTrace("validate_response_against_protocol", None),
     out |-> validate_response_against_protocol(args.validate_response.v, None)]
  ELSE IF args.dump_protocol THEN
    [branch |-> "dump_protocol",
     trace |-> <<<<"load", "main">>>>,
     out |-> load_protocol]
  ELSE IF args.dump_governed THEN
    [branch |-> "dump_governed",
     trace |-> <<>>,
     out |-> governed_instruction_set]
  ELSE IF args.sources THEN
    LET ds == get_data_sources(load_protocol)
        paths == get_local_source_paths(None, load_protocol)
        urls == get_retrieval_urls(load_protocol)
    IN  [branch |-> "sources",
         trace |-> <<<<"load", "main">>>>,
         out |-> IF ~IsMap(ds) THEN AttributeError
                 ELSE IF Raised(paths) THEN paths
                 ELSE Map([data_sources |-> ds,
                           local_paths_resolved |-> paths,
                           retrieval_urls |-> urls])]
  ELSE IF args.load_sources THEN
    [branch |-> "load_sources",
     trace |-> <<<<"load", "load_local_sources">>>>,
     out |-> load_local_sources(None, None)]
  ELSE
    [branch |-> "default",
     trace |-> <<<<"load", "main">>>> \o CoreTrace("logic_route", load_protocol),
     out |-> logic_route(DEFAULT_QUERY, load_protocol)]

Main ==
  \E args \in Namespaces :
    /\ call.fn = "none"
    /\ call' = [fn |-> "main", args |-> args,
                branch |-> main(args).branch, trace |-> main(args).trace]
    /\ ret' = main(args).out
    /\ UNCHANGED <<protocol_json, protocol_mem, fs, prev, mutations>>

NextMain == Main \/ Exit

SpecMain == Init /\ [][NextMain]_vars

InMain == call.fn = "main"

Enters(i) == call.trace[i][1] = "enter" /\ call.trace[i][2] \in CORE

Supplied(args) ==
  {f \in {"query", "validate_response"} : args[f].t # "null"}
    \cup {f \in {"dump_protocol", "dump_governed", "sources", "load_sources"} : args[f]}

(* C17: the flags are mutually exclusive: an invocation with one flag runs *)
(* the action of that flag, an invocation with no flag runs the            *)
(* derivation for the default query, and an invocation with two or more    *)
(* flags does not run the action of one of them and ignore the others.     *)
C17_FlagsExclusive ==
  InMain =>
    /\ Supplied(call.args) = {} =>
         call.branch = "default" /\ (ret.t = "map" => ret.v.query = Str(DEFAULT_QUERY))
    /\ \A f \in Supplied(call.args) : Supplied(call.args) = {f} => call.branch = f
    /\ Cardinality(Supplied(call.args)) >= 2 => call.branch \notin Supplied(call.args)

----------------------------------------------------------------------------
(* The objects logic_route returns *)

MaxMutations == 1

(* the lists of the returned object that are set by x.get(key, []): the    *)
(* path of the list in grounding_constraints and the path of the key in    *)
(* the document                                                            *)
ListProjections == {
  <<<<"domains">>, <<"operational_protocol", "sourcing", "domains">>>>,
  <<<<"data_sources", "local_paths">>, LOCAL_PATHS>>,
  <<<<"data_sources", "retrieval_urls">>,
    <<"operational_protocol", "sourcing", "data_sources", "retrieval_urls">>>>,
  <<<<"data_sources", "allowed_origins">>,
    <<"operational_protocol", "sourcing", "data_sources", "allowed_origins">>>>,
  <<<<"data_sources", "retrieval_order">>,
    <<"operational_protocol", "sourcing", "data_sources", "retrieval_order">>>>,
  <<<<"injection_prevention">>,
    <<"operational_protocol", "corePrinciples", "narrative", "injection_prevention">>>>,
  <<<<"boundaries", "rules">>, <<"operational_protocol", "boundaries", "rules">>>>,
  <<<<"boundaries", "ethical_considerations">>,
    <<"operational_protocol", "boundaries", "ethical_considerations">>>>,
  <<<<"identity", "language_avoid">>, AVOID>>,
  <<<<"banned_terms">>, BANNED>>}

(* dict.get returns the object stored under the key, not a copy: the list  *)
(* of the returned object is the list of the document when the key is      *)
(* there, and the new list of the default when it is not                   *)
AliasedTo(doc, field) ==
  {x[2] : x \in {y \in ListProjections : y[1] = field /\ HasPath(doc, y[2])}}

(* the lists a caller changes *)
MutatedFields == {<<"data_sources", "local_paths">>, <<"banned_terms">>, <<"boundaries", "rules">>}

AppendedItem(field) ==
  IF field = <<"banned_terms">> THEN <<"b">>
  ELSE IF field = <<"boundaries", "rules">> THEN "added by the caller"
  ELSE Map([id |-> Str("z"), path |-> Str("README.md")])

AppendAt(d, path, item) == Replace(d, path, List(Append(At(d, path).v, item)))

(* the caller appends to a list inside the object logic_route returned *)
AppendToReturned ==
  \E field \in MutatedFields :
    LET target == <<"grounding_constraints">> \o field
        item == AppendedItem(field)
    IN  /\ call.fn = "logic_route"
        /\ ret.t = "map"
        /\ mutations < MaxMutations
        /\ At(ret, target).t = "list"
        /\ ret' = AppendAt(ret, target, item)
        /\ protocol_mem' =
             IF call.passed /\ AliasedTo(protocol_mem, field) # {}
             THEN AppendAt(protocol_mem, CHOOSE q \in AliasedTo(protocol_mem, field) : TRUE, item)
             ELSE protocol_mem
        /\ call' = [fn |-> "append", field |-> field, passed |-> call.passed]
        /\ mutations' = mutations + 1
        /\ UNCHANGED <<protocol_json, fs, prev>>

NextAlias == LogicRoute \/ ValidateResponse \/ Exit \/ AppendToReturned

SpecAlias == Init /\ [][NextAlias]_vars

(* C14: every call of logic_route returns a fresh structure that shares no *)
(* list with the protocol document: when the caller changes a list inside  *)
(* a returned object, the document it passed is as it was.                 *)
C14_ReturnedObjectFresh ==
  call.fn = "append" => protocol_mem = protocol_json

----------------------------------------------------------------------------
(* Calls in sequence *)

DocUsed == IF call.passed THEN protocol_mem ELSE protocol_json

C18_QueryIndependent ==
  /\ Returned
  /\ prev.fn = "logic_route"
  /\ prev.protocol = DocUsed
  => /\ DOMAIN ret.v = DOMAIN prev.ret.v
     /\ \A f \in DOMAIN ret.v \ {"query"} : ret.v[f] = prev.ret.v[f]

(* the kept call had another query *)
C18_Witness ==
  /\ Returned
  /\ prev.fn = "logic_route"
  /\ prev.protocol = DocUsed
  /\ prev.query = ""
  /\ call.query = "what is the source?"
  /\ ret.v.query # prev.ret.v.query
  /\ ret.v.grounding_constraints = prev.ret.v.grounding_constraints

CountOf(type, records) == Cardinality({k \in 1..Len(records) : records[k].type = type})

(* C19: every banned term, counted with its repetitions, gives exactly one *)
(* record: the banned_term violations and the banned_term_absent passed    *)
(* checks are together as many as banned_terms is long, and the            *)
(* language_avoid violations are at most as many as avoid is long.         *)
C19_OneRecordPerTerm ==
  Reported =>
    /\ CountOf("banned_term", ret.v.violations)
         + CountOf("banned_term_absent", ret.v.passed_checks) = Len(Declared(BANNED))
    /\ CountOf("language_avoid", ret.v.violations) <= Len(Declared(AVOID))

(* a term declared twice gives two records, a phrase that occurs twice in  *)
(* the text gives one                                                      *)
C19_Witness ==
  /\ Reported
  /\ Declared(BANNED) = <<<<"A">>, <<"A">>>>
  /\ Declared(AVOID) = <<<<"A">>>>
  /\ call.response_text = <<"a", "A">>
  /\ CountOf("banned_term", ret.v.violations) = 2
  /\ CountOf("language_avoid", ret.v.violations) = 1

(* C20: a document whose banned_terms or avoid list holds the empty string *)
(* gets a violation for that entry and valid = false for every response    *)
(* text, the empty one included.                                           *)
C20_EmptyTermAlwaysMatches ==
  /\ Validated
  /\ WellFormed(protocol_json)
  => /\ <<>> \in Range(Declared(BANNED)) =>
          /\ ret.t = "map"
          /\ [type |-> "banned_term", value |-> <<>>] \in Range(ret.v.violations)
          /\ ret.v.valid = FALSE
     /\ <<>> \in Range(Declared(AVOID)) =>
          /\ ret.t = "map"
          /\ [type |-> "language_avoid", value |-> <<>>] \in Range(ret.v.violations)
          /\ ret.v.valid = FALSE

(* the empty response is invalid because of an empty avoided phrase *)
C20_Witness ==
  /\ Reported
  /\ call.response_text = <<>>
  /\ Declared(AVOID) = <<<<>>>>
  /\ Declared(BANNED) = <<>>
  /\ ret.v.valid = FALSE

====
